---------------------------- MODULE Spec2Model ----------------------------
(***************************************************************************)
(* A model of src/main.py, the ArXiv paper tracker: one batch run compacts  *)
(* conclusion.md, loads the identifiers it already holds, and for each      *)
(* configured domain discovers, selects, downloads, analyses and finally    *)
(* appends and mails the new papers.                                        *)
(*                                                                         *)
(* Text is modelled at the granularity the code's regular expressions work *)
(* at.  An identifier is a sequence of one-character strings.  A file is   *)
(* the sequence of its lines, i.e. the pieces of content.split("\n"): the  *)
(* empty file is <<Blank>>, a file that ends in a newline has Blank as its *)
(* last line, and <<>> stands for "the file does not exist".               *)
(***************************************************************************)
EXTENDS Integers, Sequences, FiniteSets, TLC

(***************************************************************************)
(* Identifiers and re.sub(r'v\d+$', '', paper_id)                          *)
(***************************************************************************)
Digits == {"0", "1", "2", "3", "4", "5", "6", "7", "8", "9"}

RECURSIVE TrailingDigits(_)
\* the length of the longest suffix of s made of digits (what \d+$ can cover)
TrailingDigits(s) ==
    IF s = <<>> \/ s[Len(s)] \notin Digits
    THEN 0
    ELSE 1 + TrailingDigits(SubSeq(s, 1, Len(s) - 1))

\* re.sub(r'v\d+$', '', s): the one match is the last "v" when only digits
\* (at least one) follow it up to the end of the string
StripVersion(s) ==
    LET k == TrailingDigits(s)
        n == Len(s)
    IN  IF k >= 1 /\ n > k /\ s[n - k] = "v" THEN SubSeq(s, 1, n - k - 1) ELSE s

\* s ends in "v" followed by one or more digits
HasVersionSuffix(s) ==
    LET k == TrailingDigits(s)
    IN  k >= 1 /\ Len(s) > k /\ s[Len(s) - k] = "v"

(***************************************************************************)
(* Lines of conclusion.md.  k is the shape of the line, t the title of a   *)
(* "### " or "#### " line (a sequence of characters, " " being white       *)
(* space), id the identifier of an https?://arxiv.org/abs/<id> link in the *)
(* line and bare the identifier of an arxiv:<id> reference in it (<<>>     *)
(* when the line holds none).                                              *)
(***************************************************************************)
NoId == <<>>

Line(k, t, id, bare) == [k |-> k, t |-> t, id |-> id, bare |-> bare]

Blank == Line("blank", <<>>, NoId, NoId)              \* ""
RunHeader == Line("h2", <<>>, NoId, NoId)             \* "## ArXiv论文 - 最近7天 (截至 ...)"
H3(t) == Line("h3", t, NoId, NoId)                    \* "### " + t
H4(t) == Line("h4", t, NoId, NoId)                    \* "#### " + t
Meta(what) == Line(what, <<>>, NoId, NoId)            \* "**作者**: ...", "**类别**: ...", "**发布日期**: ..."
LinkLine(id) == Line("link", <<>>, id, NoId)          \* "**链接**: http://arxiv.org/abs/" + id
TextLine == Line("text", <<>>, NoId, NoId)            \* a line of analysis prose
ErrorLine == Line("error", <<>>, NoId, NoId)          \* "**Paper Analysis Error**: ..."
Separator == Line("sep", <<>>, NoId, NoId)            \* "---"

EmptyFile == <<Blank>>
NoFile == <<>>

RECURSIVE LStrip(_)
LStrip(t) == IF t # <<>> /\ t[1] = " " THEN LStrip(Tail(t)) ELSE t

RECURSIVE RStrip(_)
RStrip(t) ==
    IF t # <<>> /\ t[Len(t)] = " " THEN RStrip(SubSeq(t, 1, Len(t) - 1)) ELSE t

\* str.strip() of a section title
Strip(t) == RStrip(LStrip(t))

\* the line is "### " followed by at least one character: what "### (.+?)"
\* needs between the two newlines of r'\n### (.+?)\n'
HeaderShape(l) == l.k = "h3" /\ Len(l.t) >= 1

RECURSIVE IsDelimiter(_, _)
\* line i is consumed by a match of r'\n### (.+?)\n' in re.split: it has a
\* newline before it (i > 1) that the previous match did not consume, and a
\* newline after it (i < Len)
IsDelimiter(lines, i) ==
    /\ 1 < i
    /\ i < Len(lines)
    /\ HeaderShape(lines[i])
    /\ ~IsDelimiter(lines, i - 1)

RECURSIVE NextDelimiter(_, _)
\* the first delimiter line at or after i, Len(lines) + 1 when there is none
NextDelimiter(lines, i) ==
    IF i > Len(lines) THEN Len(lines) + 1
    ELSE IF IsDelimiter(lines, i) THEN i
    ELSE NextDelimiter(lines, i + 1)

RECURSIVE FirstLink(_)
\* re.search(r'https?://arxiv\.org/abs/([^)\s\n]+)', paper_content).group(1),
\* NoId when nothing matches
FirstLink(content) ==
    IF content = <<>> THEN NoId
    ELSE IF Head(content).id # NoId THEN Head(content).id
    ELSE FirstLink(Tail(content))

RECURSIVE CleanSections(_, _, _)
\* the loop of clean_duplicate_entries over the (title, content) pairs of
\* re.split, from the section whose delimiter is line d on
CleanSections(lines, d, seen_papers) ==
    IF d > Len(lines) THEN <<>>
    ELSE LET e == NextDelimiter(lines, d + 1)
             paper_title == Strip(lines[d].t)
             paper_content == SubSeq(lines, d + 1, e - 1)
             paper_id == FirstLink(paper_content)
             paper_id_no_version == StripVersion(paper_id)
             kept == <<H3(paper_title)>> \o paper_content
         IN  IF paper_id # NoId
             THEN IF paper_id \notin seen_papers /\ paper_id_no_version \notin seen_papers
                  THEN kept \o CleanSections(lines, e,
                                   seen_papers \cup {paper_id, paper_id_no_version})
                  ELSE CleanSections(lines, e, seen_papers)
             ELSE kept \o CleanSections(lines, e, seen_papers)

\* cleaned_content of clean_duplicate_entries for the content read
CleanedContent(lines) ==
    LET d == NextDelimiter(lines, 1)
    IN  SubSeq(lines, 1, d - 1) \o CleanSections(lines, d, {})

\* the set get_analyzed_papers builds from the content read: every link and
\* every arxiv: reference, raw and with the version stripped
AnalyzedPapers(lines) ==
    LET arxiv_links == {lines[i].id : i \in {j \in 1..Len(lines) : lines[j].id # NoId}}
        paper_ids == {lines[i].bare : i \in {j \in 1..Len(lines) : lines[j].bare # NoId}}
        found == arxiv_links \cup paper_ids
    IN  {StripVersion(paper_id) : paper_id \in found} \cup found

(***************************************************************************)
(* Configuration and the catalog                                           *)
(***************************************************************************)
\* bounds of the model
MaxRuns == 2          \* runs of main() in one behaviour
MaxFaults == 1        \* failures and interruptions injected in one behaviour
MaxVersion == 2       \* the highest version suffix the catalog gives a paper
MaxRevisions == 1     \* identifier changes of the catalog in one behaviour
MaxSearch == 3        \* "max_search" of a domain, 30 in CATEGORY_CONFIGS
MaxAnalyze == 2       \* "max_analyze" of a domain, 5 in CATEGORY_CONFIGS
FirstDay == 10        \* the day the runs take place

RecentDays == 7       \* datetime.timedelta(days=7)

\* CATEGORY_CONFIGS, in the order of the dictionary
Domains == <<"SE", "CR">>
Categories(domain_name) == IF domain_name = "SE" THEN <<"cs.SE">> ELSE <<"cs.CR">>
AllCategories == {"cs.SE", "cs.CR"}

\* "### {domain} 领域"
DomainTitle(domain_name) == <<domain_name, " ", "field">>

\* the papers of the catalog, newest first: papers 1 and 2 are recent, paper 3
\* sits on the edge of the 7-day window, paper 4 is 8 days old
Docs == {1, 2, 3, 4}
NewestFirst == <<1, 2, 3, 4>>
Published(d) == IF d = 1 THEN FirstDay - 1
                ELSE IF d = 2 THEN FirstDay - 2
                ELSE IF d = 3 THEN FirstDay - RecentDays
                ELSE FirstDay - RecentDays - 1
BaseId(d) == IF d = 1 THEN <<"6">>
             ELSE IF d = 2 THEN <<"7">>
             ELSE IF d = 3 THEN <<"8">>
             ELSE <<"9">>
VersionChar(v) == IF v = 1 THEN "1" ELSE IF v = 2 THEN "2" ELSE "3"

\* paper.get_short_id(): the identifier with the version the catalog lists,
\* version 0 standing for an identifier without suffix
ShortId(d, v) == IF v = 0 THEN BaseId(d) ELSE BaseId(d) \o <<"v", VersionChar(v)>>

\* an arxiv.Result as far as main.py reads it
Paper(d, v) == [doc |-> d, id |-> ShortId(d, v), published |-> Published(d)]

VARIABLES
    store,                \* conclusion.md
    pdfs,                 \* the identifiers with a file in ./papers
    emails,               \* the reports sent, each the domains in it
    listing,              \* the catalog: [cats, ver] of each paper
    now,                  \* datetime.datetime.now(), in days
    max_analyze,          \* config["max_analyze"] of each domain
    layout,               \* the layout the analysis service gives its answers in this run
    pc,                   \* where main() is
    cleaned_content,      \* clean_duplicate_entries
    analyzed_papers,      \* main
    domain,               \* index of the domain the loop of main is in
    today,                \* get_recent_papers
    papers,               \* main
    new_papers,           \* main
    papers_to_analyze,    \* main
    deferred,             \* the count main logs as left for the next run
    i,                    \* index of the paper the inner loop is at
    domain_analyses,      \* main
    all_papers_analyses,  \* main
    raw_id,               \* an identifier as the catalog or the store gives it
    raw_id_no_version,    \* what StripVersion made of it
    categories,           \* the categories get_recent_papers is called with
    transport,            \* what the catalog service does with the queries of
                          \* that call: "ok", "fallback" (the first one raises)
                          \* or "down" (both raise)
    runs, faults, revisions, passes,   \* counters that bound the model
    hAppended,            \* history: identifiers appended by earlier runs
    hLoadFailed,          \* history: some load failed
    hAnalyzed,            \* history: identifiers analysed in this run
    hSelected,            \* history: what became of each paper selected in this run
    hCleanPre,            \* history: the store when compaction read it
    hClean,               \* history: how the compaction of this run went
    hInterrupted,         \* history: the step the last interruption hit
    hPass1,               \* history: the store after the first of two compactions
    hChosen,              \* history: the papers this run selected, in order
    other_pc,             \* a second process running main(): where it is
    other_analyzed_papers, \* its analyzed_papers
    other_analyses,       \* its all_papers_analyses
    hOtherAppended,       \* history: the identifiers it appended
    hNotified,            \* history: the calls of send_email in this run, each
                          \* with the domains of the report it was given
    hKept,                \* history: what first left a PDF on disk, a failed
                          \* unlink ("unlink") or the end of the process ("killed")
    hDeferred,            \* history: the new papers this run left beyond
                          \* max_analyze, in order
    hBacklog,             \* history: the papers the run before left beyond
                          \* max_analyze and selected under no domain
    hErrored,             \* history: the identifiers appended, in any run, with
                          \* the error text as their analysis
    hTopics               \* history: the domains this run has searched, in
                          \* order, each with the number of papers found and,
                          \* once the selection is made, of papers selected

envVars == <<store, pdfs, emails, listing, now, max_analyze, layout>>
runVars == <<pc, cleaned_content, analyzed_papers, domain, today, papers, new_papers,
             papers_to_analyze, deferred, i, domain_analyses, all_papers_analyses>>
fnVars == <<raw_id, raw_id_no_version, categories, transport>>
boundVars == <<runs, faults, revisions, passes>>
histVars == <<hAppended, hLoadFailed, hAnalyzed, hSelected, hCleanPre, hClean,
              hInterrupted, hPass1, hChosen, hKept, hNotified, hDeferred,
              hBacklog, hTopics, hErrored>>
otherVars == <<other_pc, other_analyzed_papers, other_analyses, hOtherAppended>>
vars == <<envVars, runVars, fnVars, boundVars, histVars, otherVars>>

(***************************************************************************)
(* get_recent_papers                                                       *)
(***************************************************************************)
Take(s, n) == SubSeq(s, 1, IF n < Len(s) THEN n ELSE Len(s))

\* list(client.results(search)): the papers the catalog lists under one of
\* the categories, newest first, at most max_results of them
SearchResults(cats, max_results) ==
    LET listed(d) == \E k \in 1..Len(cats) : cats[k] \in listing[d].cats
        hits == SelectSeq(NewestFirst, listed)
    IN  Take([k \in 1..Len(hits) |-> Paper(hits[k], listing[hits[k]].ver)], max_results)

\* a mutant: a paper published at the cutoff is not kept
RecentPapersAfterCutoff(results, day) ==
    LET recent_cutoff == day - RecentDays
        recent(p) == p.published > recent_cutoff
    IN  SelectSeq(results, recent)

\* the loop that keeps the papers with paper_date >= recent_cutoff
RecentPapers(results, day) ==
    LET recent_cutoff == day - RecentDays
        recent(paper) == paper.published >= recent_cutoff
    IN  SelectSeq(results, recent)

(***************************************************************************)
(* The selection of main(): filter, sort, cap                              *)
(***************************************************************************)
\* a mutant: only the raw identifier is looked up
IsAnalyzedRawOnly(paper, analyzed) == paper.id \in analyzed

\* a mutant: the paper is looked up in conclusion.md as it is now and not in
\* the set get_analyzed_papers returned
IsAnalyzedInFile(paper, analyzed) ==
    /\ store # NoFile
    /\ \/ paper.id \in AnalyzedPapers(store)
       \/ StripVersion(paper.id) \in AnalyzedPapers(store)

\* is_analyzed of main
IsAnalyzed(paper, analyzed) ==
    LET id == paper.id
        id_no_version == StripVersion(id)
    IN  id \in analyzed \/ id_no_version \in analyzed

NewPapers(found, analyzed) ==
    LET fresh(paper) == ~IsAnalyzed(paper, analyzed)
    IN  SelectSeq(found, fresh)

RECURSIVE InsertNewestBeforeEqual(_, _)
\* a mutant: the paper is put before the papers that are as new
InsertNewestBeforeEqual(s, p) ==
    IF s = <<>> THEN <<p>>
    ELSE IF Head(s).published > p.published
         THEN <<Head(s)>> \o InsertNewestBeforeEqual(Tail(s), p)
         ELSE <<p>> \o s

RECURSIVE InsertNewest(_, _)
\* paper put behind every paper of the sorted sequence s that is as new or newer
InsertNewest(s, paper) ==
    IF s = <<>> THEN <<paper>>
    ELSE IF Head(s).published >= paper.published
         THEN <<Head(s)>> \o InsertNewest(Tail(s), paper)
         ELSE <<paper>> \o s

RECURSIVE SortNewestFrom(_, _)
SortNewestFrom(sorted, rest) ==
    IF rest = <<>> THEN sorted
    ELSE SortNewestFrom(InsertNewest(sorted, Head(rest)), Tail(rest))

\* new_papers.sort(key=lambda p: p.published, reverse=True): a stable sort
SortNewest(s) == SortNewestFrom(<<>>, s)

\* a mutant: one paper more than the cap
PapersToAnalyzeOffByOne(sorted, cap) == Take(sorted, cap + 1)

\* new_papers[:max_analyze]
PapersToAnalyze(sorted, cap) == Take(sorted, cap)

\* the number main logs as waiting for the next run (nothing is logged, 0,
\* unless len(new_papers) > max_analyze)
DeferredCount(sorted, cap) == IF Len(sorted) > cap THEN Len(sorted) - cap ELSE 0

\* new_papers[max_analyze:], the papers that count is of
Deferred(sorted, cap) == SubSeq(sorted, Len(Take(sorted, cap)) + 1, Len(sorted))

(***************************************************************************)
(* Analyses and write_to_conclusion_with_domains                           *)
(***************************************************************************)
\* what analyze_paper_with_chatgpt can return: the model's answer as one
\* paragraph ("plain"), the answer laid out as the prompt asks, with
\* "### Key Contributions" style headings ("sections"), or the sentinel
\* "**Paper Analysis Error**: ..." ("error")
Answers == {"plain", "sections"}
SentinelError == "error"

\* the lines of an analysis text
AnalysisLines(analysis) ==
    IF analysis = SentinelError THEN <<ErrorLine>>
    ELSE IF analysis = "plain" THEN <<TextLine>>
    ELSE <<H4(<<"Executive Summary">>), TextLine, Blank,
           H3(<<"Key Contributions">>), TextLine>>

\* an element of papers_analyses
Result(paper, analysis, domain_name) ==
    [paper |-> paper, analysis |-> analysis, domain |-> domain_name]

\* a mutant: the first domain only
DomainOrderFirstOnly(papers_analyses, have) ==
    IF papers_analyses = <<>> THEN <<>> ELSE <<Head(papers_analyses).domain>>

RECURSIVE DomainOrder(_, _)
\* the keys of domain_papers in insertion order: the domains of the results,
\* each at its first occurrence
DomainOrder(papers_analyses, have) ==
    IF papers_analyses = <<>> THEN <<>>
    ELSE LET d == Head(papers_analyses).domain
         IN  IF d \in have THEN DomainOrder(Tail(papers_analyses), have)
             ELSE <<d>> \o DomainOrder(Tail(papers_analyses), have \cup {d})

\* a mutant: every domain gets all the results
DomainPapersUngrouped(papers_analyses, domain_name) == papers_analyses

\* domain_papers[domain_name]
DomainPapers(papers_analyses, domain_name) ==
    LET mine(r) == r.domain = domain_name
    IN  SelectSeq(papers_analyses, mine)

\* the block written for one paper, "#### title" to "---" and the empty line
EntryLines(r) ==
    <<H4(<<"paper">> \o BaseId(r.paper.doc)), Meta("authors"), Meta("categories"),
      Meta("published"), LinkLine(r.paper.id), Blank>>
        \o AnalysisLines(r.analysis) \o <<Blank, Separator, Blank>>

RECURSIVE EntriesLines(_)
EntriesLines(rs) ==
    IF rs = <<>> THEN <<>> ELSE EntryLines(Head(rs)) \o EntriesLines(Tail(rs))

RECURSIVE DomainsLines(_, _)
\* the loop over domain_papers.items(): "### {domain} 领域", an empty line,
\* the entries
DomainsLines(papers_analyses, order) ==
    IF order = <<>> THEN <<>>
    ELSE <<H3(DomainTitle(Head(order))), Blank>>
             \o EntriesLines(DomainPapers(papers_analyses, Head(order)))
             \o DomainsLines(papers_analyses, Tail(order))

\* the file after write_to_conclusion_with_domains appended to it; the text
\* written starts "\n\n## ..." and ends in a newline, so its first newline
\* ends the last line the file had and the file again ends in an empty line
Appended(file, papers_analyses) ==
    (IF file = NoFile THEN EmptyFile ELSE file)
        \o <<Blank, RunHeader, Blank>>
        \o DomainsLines(papers_analyses, DomainOrder(papers_analyses, {}))
        \o <<Blank>>

(***************************************************************************)
(* The state before a run, and the environment between runs                *)
(***************************************************************************)
\* the locals of main() hold nothing outside a run
LocalsCleared ==
    /\ cleaned_content' = <<>>
    /\ analyzed_papers' = {}
    /\ domain' = 0
    /\ today' = 0
    /\ papers' = <<>>
    /\ new_papers' = <<>>
    /\ papers_to_analyze' = <<>>
    /\ deferred' = 0
    /\ i' = 0
    /\ domain_analyses' = <<>>
    /\ all_papers_analyses' = <<>>

Fault == faults < MaxFaults /\ faults' = faults + 1

InitLocals ==
    /\ cleaned_content = <<>>
    /\ analyzed_papers = {}
    /\ domain = 0
    /\ today = 0
    /\ papers = <<>>
    /\ new_papers = <<>>
    /\ papers_to_analyze = <<>>
    /\ deferred = 0
    /\ i = 0
    /\ domain_analyses = <<>>
    /\ all_papers_analyses = <<>>

InitEnv ==
    /\ pdfs = {}
    /\ layout = "plain"
    /\ emails = <<>>
    /\ now = FirstDay

InitFn ==
    /\ raw_id = NoId
    /\ raw_id_no_version = NoId

InitArgs ==
    /\ categories = <<>>
    /\ transport = "ok"

InitBounds ==
    /\ runs = 0
    /\ faults = 0
    /\ revisions = 0
    /\ passes = 0

\* no second process
InitOther ==
    /\ other_pc = "idle"
    /\ other_analyzed_papers = {}
    /\ other_analyses = <<>>
    /\ hOtherAppended = {}

InitHist ==
    /\ hAppended = {}
    /\ hLoadFailed = FALSE
    /\ hAnalyzed = <<>>
    /\ hSelected = <<>>
    /\ hCleanPre = NoFile
    /\ hClean = "none"
    /\ hInterrupted = "no"
    /\ hPass1 = NoFile
    /\ hChosen = <<>>
    /\ hKept = "no"
    /\ hNotified = <<>>
    /\ hDeferred = <<>>
    /\ hBacklog = <<>>
    /\ hTopics = <<>>
    /\ hErrored = {}

\* before the first run: no conclusion.md, no PDF; every paper of the catalog
\* is listed at version 1 under one or both categories, the old paper under both
Init ==
    /\ store = NoFile
    /\ listing \in [Docs -> [cats : (SUBSET AllCategories) \ {{}}, ver : {1}]]
    /\ listing[4].cats = AllCategories
    /\ max_analyze = [d \in {"SE", "CR"} |-> MaxAnalyze]
    /\ pc = "idle"
    /\ InitLocals
    /\ InitEnv
    /\ InitFn
    /\ InitArgs
    /\ InitBounds
    /\ InitHist
    /\ InitOther

\* the catalog lists a paper under another identifier: a new version, or the
\* identifier without its suffix
Revise ==
    /\ pc = "idle"
    /\ revisions < MaxRevisions
    /\ \E d \in Docs, v \in 0..MaxVersion :
          /\ v # listing[d].ver
          /\ listing' = [listing EXCEPT ![d].ver = v]
    /\ revisions' = revisions + 1
    /\ UNCHANGED <<otherVars, store, pdfs, emails, now, max_analyze, layout, runVars, fnVars,
                   runs, faults, passes, histVars>>

\* main() is started; the analysis service answers in one layout all run long
\* the papers of a list whose normalized identifier no paper of another has
NotAmong(list, others) ==
    LET taken == {StripVersion(others[k].id) : k \in 1..Len(others)}
        free(p) == StripVersion(p.id) \notin taken
    IN  SelectSeq(list, free)

StartRun ==
    /\ pc = "idle"
    /\ runs < MaxRuns
    /\ runs' = runs + 1
    /\ pc' = "clean"
    /\ layout' \in Answers
    /\ hAnalyzed' = <<>>
    /\ hSelected' = <<>>
    /\ hClean' = "none"
    /\ hInterrupted' = "no"
    /\ hCleanPre' = NoFile
    /\ hChosen' = <<>>
    /\ hNotified' = <<>>
    /\ hDeferred' = <<>>
    /\ hBacklog' = NotAmong(hDeferred, hChosen)
    /\ hTopics' = <<>>
    /\ UNCHANGED <<otherVars, store, pdfs, emails, listing, now, max_analyze,
                   cleaned_content, analyzed_papers, domain, today, papers,
                   new_papers, papers_to_analyze, deferred, i, domain_analyses,
                   all_papers_analyses, fnVars, faults, revisions, passes,
                   hAppended, hLoadFailed, hPass1, hKept, hErrored>>

\* the process is killed, or an exception main() does not catch ends it
Interrupt ==
    /\ pc # "idle"
    /\ Fault
    /\ hInterrupted' = (IF pc \in {"clean_open", "clean_write"} THEN pc ELSE "later")
    /\ hKept' = (IF hKept = "no" /\ pdfs # {} THEN "killed" ELSE hKept)
    /\ pc' = "idle"
    /\ LocalsCleared
    /\ UNCHANGED <<otherVars, envVars, fnVars, runs, revisions, passes, hAppended, hLoadFailed,
                   hAnalyzed, hSelected, hCleanPre, hClean, hPass1, hChosen, hNotified, hDeferred,
                   hBacklog, hTopics, hErrored>>

(***************************************************************************)
(* clean_duplicate_entries                                                 *)
(***************************************************************************)
\* conclusion.md does not exist: nothing to clean
CleanNoFile ==
    /\ pc = "clean"
    /\ store = NoFile
    /\ pc' = "load"
    /\ hClean' = "nofile"
    /\ UNCHANGED <<otherVars, envVars, cleaned_content, analyzed_papers, domain, today, papers,
                   new_papers, papers_to_analyze, deferred, i, domain_analyses,
                   all_papers_analyses, fnVars, boundVars, hAppended, hLoadFailed,
                   hAnalyzed, hSelected, hCleanPre, hInterrupted, hPass1,
                   hChosen, hKept, hNotified, hDeferred,
                   hBacklog, hTopics, hErrored>>

\* the file is read and cleaned_content is built in memory
CleanRead ==
    /\ pc = "clean"
    /\ store # NoFile
    /\ cleaned_content' = CleanedContent(store)
    /\ hCleanPre' = store
    /\ pc' = "clean_open"
    /\ UNCHANGED <<otherVars, envVars, analyzed_papers, domain, today, papers,
                   new_papers, papers_to_analyze, deferred, i, domain_analyses,
                   all_papers_analyses, fnVars, boundVars, hAppended, hLoadFailed,
                   hAnalyzed, hSelected, hClean, hInterrupted, hPass1,
                   hChosen, hKept, hNotified, hDeferred,
                   hBacklog, hTopics, hErrored>>

\* reading raises: the exception is logged and the function returns
CleanReadFail ==
    /\ pc = "clean"
    /\ store # NoFile
    /\ Fault
    /\ hCleanPre' = store
    /\ hClean' = "failed"
    /\ pc' = "load"
    /\ UNCHANGED <<otherVars, envVars, cleaned_content, analyzed_papers, domain, today, papers,
                   new_papers, papers_to_analyze, deferred, i, domain_analyses,
                   all_papers_analyses, fnVars, runs, revisions, passes, hAppended,
                   hLoadFailed, hAnalyzed, hSelected, hInterrupted, hPass1,
                   hChosen, hKept, hNotified, hDeferred,
                   hBacklog, hTopics, hErrored>>

\* open(CONCLUSION_FILE, 'w') truncates the file
CleanOpen ==
    /\ pc = "clean_open"
    /\ store' = EmptyFile
    /\ pc' = "clean_write"
    /\ UNCHANGED <<otherVars, pdfs, emails, listing, now, max_analyze, layout, cleaned_content,
                   analyzed_papers, domain, today, papers,
                   new_papers, papers_to_analyze, deferred, i, domain_analyses,
                   all_papers_analyses, fnVars, boundVars, histVars>>

\* f.write(cleaned_content) and the close of the file succeed
CleanWrite ==
    /\ pc = "clean_write"
    /\ store' = cleaned_content
    /\ hClean' = "done"
    /\ pc' = "load"
    /\ UNCHANGED <<otherVars, pdfs, emails, listing, now, max_analyze, layout, cleaned_content,
                   analyzed_papers, domain, today, papers,
                   new_papers, papers_to_analyze, deferred, i, domain_analyses,
                   all_papers_analyses, fnVars, boundVars, hAppended, hLoadFailed,
                   hAnalyzed, hSelected, hCleanPre, hInterrupted, hPass1,
                   hChosen, hKept, hNotified, hDeferred,
                   hBacklog, hTopics, hErrored>>

\* the write raises when nothing or the first half of the lines reached the
\* file: the exception is logged, the function returns and the run goes on
CleanWriteFail ==
    /\ pc = "clean_write"
    /\ Fault
    /\ \E k \in {0, Len(cleaned_content) \div 2} :
          /\ store' = SubSeq(cleaned_content, 1, k) \o <<Blank>>
          /\ store' # cleaned_content
    /\ hClean' = "failed"
    /\ pc' = "load"
    /\ UNCHANGED <<otherVars, pdfs, emails, listing, now, max_analyze, layout, cleaned_content,
                   analyzed_papers, domain, today, papers,
                   new_papers, papers_to_analyze, deferred, i, domain_analyses,
                   all_papers_analyses, fnVars, runs, revisions, passes, hAppended,
                   hLoadFailed, hAnalyzed, hSelected, hCleanPre, hInterrupted, hPass1,
                   hChosen, hKept, hNotified, hDeferred,
                   hBacklog, hTopics, hErrored>>

\* opening the file for writing raises: nothing is written
CleanOpenFail ==
    /\ pc = "clean_open"
    /\ Fault
    /\ hClean' = "failed"
    /\ pc' = "load"
    /\ UNCHANGED <<otherVars, envVars, cleaned_content, analyzed_papers, domain, today, papers,
                   new_papers, papers_to_analyze, deferred, i, domain_analyses,
                   all_papers_analyses, fnVars, runs, revisions, passes, hAppended,
                   hLoadFailed, hAnalyzed, hSelected, hCleanPre, hInterrupted, hPass1,
                   hChosen, hKept, hNotified, hDeferred,
                   hBacklog, hTopics, hErrored>>

(***************************************************************************)
(* get_analyzed_papers, and the start of the loop over the domains         *)
(***************************************************************************)
\* a mutant: the set of the content clean_duplicate_entries read, as if
\* get_analyzed_papers had been called first
LoadedBeforeCompaction ==
    IF hCleanPre = NoFile THEN (IF store = NoFile THEN {} ELSE AnalyzedPapers(store))
    ELSE AnalyzedPapers(hCleanPre)

\* what get_analyzed_papers returns when the read succeeds
Loaded == IF store = NoFile THEN {} ELSE AnalyzedPapers(store)

LoadOk ==
    /\ pc = "load"
    /\ analyzed_papers' = Loaded
    /\ all_papers_analyses' = <<>>
    /\ domain' = 1
    /\ pc' = "domain"
    /\ UNCHANGED <<otherVars, envVars, cleaned_content, today, papers, new_papers,
                   papers_to_analyze, deferred, i, domain_analyses, fnVars,
                   boundVars, histVars>>

\* reading raises: the empty set is returned
LoadFail ==
    /\ pc = "load"
    /\ store # NoFile
    /\ Fault
    /\ analyzed_papers' = {}
    /\ hLoadFailed' = TRUE
    /\ all_papers_analyses' = <<>>
    /\ domain' = 1
    /\ pc' = "domain"
    /\ UNCHANGED <<otherVars, envVars, cleaned_content, today, papers, new_papers,
                   papers_to_analyze, deferred, i, domain_analyses, fnVars,
                   runs, revisions, passes, hAppended, hAnalyzed, hSelected,
                   hCleanPre, hClean, hInterrupted, hPass1,
                   hChosen, hKept, hNotified, hDeferred,
                   hBacklog, hTopics, hErrored>>

(***************************************************************************)
(* One domain: get_recent_papers, then "if not papers: continue"           *)
(***************************************************************************)
domain_name == Domains[domain]

\* a mutant: with no paper found the loop over the domains is left
FoundOrBreak(result) ==
    /\ papers' = result
    /\ today' = now
    /\ IF result = <<>>
       THEN domain' = Len(Domains) + 1 /\ pc' = "domain"
       ELSE domain' = domain /\ pc' = "select"

\* main goes on with the papers found: to the selection, or, when there are
\* none, to the next domain
Found(result) ==
    /\ papers' = result
    /\ today' = now
    /\ IF result = <<>>
       THEN domain' = domain + 1 /\ pc' = "domain"
       ELSE domain' = domain /\ pc' = "select"

\* hTopics with the domain whose search gave result
Searched(result) ==
    Append(hTopics, [domain |-> domain_name, found |-> Len(result),
                     selected |-> FALSE, chosen |-> 0])

\* a mutant: the simplified query asks for all the categories
FallbackResultsAllFilters(cats, max_results) ==
    Take(SearchResults(cats, max_results), max_results)

\* the query with all categories raises; the query with categories[0] alone
\* succeeds and results[:max_results] is returned as it is
FallbackResults(cats, max_results) ==
    Take(SearchResults(<<cats[1]>>, max_results), max_results)

\* what get_recent_papers returns: the recent papers of the first query, the
\* results of the simplified query when the first raises, and [] when the
\* second raises as well, as categories[0] does for an empty list
GetRecentPapers(cats, max_results, service) ==
    IF service = "ok" THEN RecentPapers(SearchResults(cats, max_results), now)
    ELSE IF service = "fallback" /\ cats # <<>> THEN FallbackResults(cats, max_results)
    ELSE <<>>

\* the query with all categories succeeds; the papers of the last days are kept
SearchOk ==
    /\ pc = "domain"
    /\ domain <= Len(Domains)
    /\ Found(GetRecentPapers(Categories(domain_name), MaxSearch, "ok"))
    /\ hTopics' = Searched(GetRecentPapers(Categories(domain_name), MaxSearch, "ok"))
    /\ UNCHANGED <<otherVars, envVars, cleaned_content, analyzed_papers, new_papers,
                   papers_to_analyze, deferred, i, domain_analyses,
                   all_papers_analyses, fnVars, boundVars,
                   hAppended, hLoadFailed, hAnalyzed, hSelected,
                   hCleanPre, hClean, hInterrupted, hPass1, hChosen, hKept,
                   hNotified, hDeferred, hBacklog, hErrored>>

\* the first query raises and the simplified query answers
SearchFallback ==
    /\ pc = "domain"
    /\ domain <= Len(Domains)
    /\ Fault
    /\ Found(GetRecentPapers(Categories(domain_name), MaxSearch, "fallback"))
    /\ hTopics' = Searched(GetRecentPapers(Categories(domain_name), MaxSearch, "fallback"))
    /\ UNCHANGED <<otherVars, envVars, cleaned_content, analyzed_papers, new_papers,
                   papers_to_analyze, deferred, i, domain_analyses,
                   all_papers_analyses, fnVars, runs, revisions, passes,
                   hAppended, hLoadFailed, hAnalyzed, hSelected,
                   hCleanPre, hClean, hInterrupted, hPass1, hChosen, hKept,
                   hNotified, hDeferred, hBacklog, hErrored>>

\* both queries raise: []
SearchFail ==
    /\ pc = "domain"
    /\ domain <= Len(Domains)
    /\ Fault
    /\ Found(GetRecentPapers(Categories(domain_name), MaxSearch, "down"))
    /\ hTopics' = Searched(GetRecentPapers(Categories(domain_name), MaxSearch, "down"))
    /\ UNCHANGED <<otherVars, envVars, cleaned_content, analyzed_papers, new_papers,
                   papers_to_analyze, deferred, i, domain_analyses,
                   all_papers_analyses, fnVars, runs, revisions, passes,
                   hAppended, hLoadFailed, hAnalyzed, hSelected,
                   hCleanPre, hClean, hInterrupted, hPass1, hChosen, hKept,
                   hNotified, hDeferred, hBacklog, hErrored>>

\* the selection of main: the papers not analysed yet, newest first, at most
\* max_analyze of them; "if not papers_to_analyze: continue"
Select ==
    /\ pc = "select"
    /\ LET sorted == SortNewest(NewPapers(papers, analyzed_papers))
           chosen == PapersToAnalyze(sorted, max_analyze[domain_name])
       IN  /\ new_papers' = sorted
           /\ papers_to_analyze' = chosen
           /\ deferred' = DeferredCount(sorted, max_analyze[domain_name])
           /\ hChosen' = hChosen \o chosen
           /\ hDeferred' = hDeferred \o Deferred(sorted, max_analyze[domain_name])
           /\ hTopics' = IF hTopics = <<>> THEN hTopics
                          ELSE [hTopics EXCEPT ![Len(hTopics)].selected = TRUE,
                                               ![Len(hTopics)].chosen = Len(chosen)]
           /\ IF chosen = <<>>
              THEN domain' = domain + 1 /\ pc' = "domain" /\ i' = i
              ELSE domain' = domain /\ pc' = "download" /\ i' = 1
    /\ domain_analyses' = <<>>
    /\ UNCHANGED <<otherVars, envVars, cleaned_content, analyzed_papers, today, papers,
                   all_papers_analyses, fnVars, boundVars, hAppended, hLoadFailed,
                   hAnalyzed, hSelected, hCleanPre, hClean, hInterrupted, hPass1,
                   hKept, hNotified, hBacklog, hErrored>>

(***************************************************************************)
(* The loop over papers_to_analyze: download_paper,                        *)
(* analyze_paper_with_chatgpt, delete_pdf                                  *)
(***************************************************************************)
paper == papers_to_analyze[i]

Outcome(p, what) == [paper |-> p, domain |-> domain_name, outcome |-> what]

\* the PDF is on disk when download_paper returns: it was there already, or
\* download_pdf wrote it
DownloadOk ==
    /\ pc = "download"
    /\ i <= Len(papers_to_analyze)
    /\ pdfs' = pdfs \cup {paper.id}
    /\ pc' = "analyze"
    /\ UNCHANGED <<otherVars, store, emails, listing, now, max_analyze, layout, cleaned_content,
                   analyzed_papers, domain, today, papers, new_papers,
                   papers_to_analyze, deferred, i, domain_analyses,
                   all_papers_analyses, fnVars, boundVars, histVars>>

\* download_pdf raises: download_paper returns None and the loop goes on
DownloadFail ==
    /\ pc = "download"
    /\ i <= Len(papers_to_analyze)
    /\ paper.id \notin pdfs
    /\ Fault
    /\ i' = i + 1
    /\ hSelected' = Append(hSelected, Outcome(paper, "nopdf"))
    /\ UNCHANGED <<otherVars, envVars, pc, cleaned_content, analyzed_papers, domain, today,
                   papers, new_papers, papers_to_analyze, deferred, domain_analyses,
                   all_papers_analyses, fnVars, runs, revisions, passes, hAppended,
                   hLoadFailed, hAnalyzed, hCleanPre, hClean, hInterrupted, hPass1,
                   hChosen, hKept, hNotified, hDeferred,
                   hBacklog, hTopics, hErrored>>

\* a mutant: an analysis that failed leaves no result
AnalysedDropsErrors(analyses, p, analysis, name) ==
    IF analysis = SentinelError THEN analyses
    ELSE Append(analyses, Result(p, analysis, name))

\* domain_analyses.append((paper, analysis, domain_name))
Analysed(analyses, p, analysis, name) == Append(analyses, Result(p, analysis, name))

\* the analysis service answers
AnalyzeOk ==
    /\ pc = "analyze"
    /\ domain_analyses' = Analysed(domain_analyses, paper, layout, domain_name)
    /\ hAnalyzed' = Append(hAnalyzed, paper.id)
    /\ hSelected' = Append(hSelected, Outcome(paper, "analysed"))
    /\ pc' = "delete"
    /\ UNCHANGED <<otherVars, envVars, cleaned_content, analyzed_papers, domain, today,
                   papers, new_papers, papers_to_analyze, deferred, i,
                   all_papers_analyses, fnVars, boundVars, hAppended,
                   hLoadFailed, hCleanPre, hClean, hInterrupted, hPass1,
                   hChosen, hKept, hNotified, hDeferred,
                   hBacklog, hTopics, hErrored>>

\* the call raises: the sentinel text is the analysis
AnalyzeFail ==
    /\ pc = "analyze"
    /\ Fault
    /\ domain_analyses' = Analysed(domain_analyses, paper, SentinelError, domain_name)
    /\ hAnalyzed' = Append(hAnalyzed, paper.id)
    /\ hSelected' = Append(hSelected, Outcome(paper, "failed"))
    /\ pc' = "delete"
    /\ UNCHANGED <<otherVars, envVars, cleaned_content, analyzed_papers, domain, today,
                   papers, new_papers, papers_to_analyze, deferred, i,
                   all_papers_analyses, fnVars, runs, revisions, passes, hAppended,
                   hLoadFailed, hCleanPre, hClean, hInterrupted, hPass1,
                   hChosen, hKept, hNotified, hDeferred,
                   hBacklog, hTopics, hErrored>>

\* a mutant: the file is not removed
UnlinkedNothing(files, id) == files

\* pdf_path.unlink()
Unlinked(files, id) == files \ {id}

\* delete_pdf removes the file
DeleteOk ==
    /\ pc = "delete"
    /\ pdfs' = Unlinked(pdfs, paper.id)
    /\ i' = i + 1
    /\ pc' = "download"
    /\ UNCHANGED <<otherVars, store, emails, listing, now, max_analyze, layout, cleaned_content,
                   analyzed_papers, domain, today, papers, new_papers,
                   papers_to_analyze, deferred, domain_analyses,
                   all_papers_analyses, fnVars, boundVars, histVars>>

\* unlink raises: the exception is logged, the file stays
DeleteFail ==
    /\ pc = "delete"
    /\ Fault
    /\ i' = i + 1
    /\ hKept' = (IF hKept = "no" THEN "unlink" ELSE hKept)
    /\ pc' = "download"
    /\ UNCHANGED <<otherVars, envVars, cleaned_content, analyzed_papers, domain, today,
                   papers, new_papers, papers_to_analyze, deferred, domain_analyses,
                   all_papers_analyses, fnVars, runs, revisions, passes, hAppended,
                   hLoadFailed, hAnalyzed, hSelected, hCleanPre, hClean, hInterrupted,
                   hPass1, hChosen, hNotified, hDeferred,
                   hBacklog, hTopics, hErrored>>

\* a mutant: the papers left beyond max_analyze join the results as well
ExtendedWithDeferred(all, more) ==
    LET rest == Deferred(new_papers, max_analyze[domain_name])
    IN  all \o more \o [k \in 1..Len(rest) |-> Result(rest[k], layout, domain_name)]

\* all_papers_analyses.extend(domain_analyses)
Extended(all, more) == all \o more

\* the inner loop is over: the results of the domain join the others and the
\* loop of main moves to the next domain
DomainDone ==
    /\ pc = "download"
    /\ i > Len(papers_to_analyze)
    /\ all_papers_analyses' = Extended(all_papers_analyses, domain_analyses)
    /\ domain' = domain + 1
    /\ pc' = "domain"
    /\ UNCHANGED <<otherVars, envVars, cleaned_content, analyzed_papers, today, papers,
                   new_papers, papers_to_analyze, deferred, i, domain_analyses,
                   fnVars, boundVars, histVars>>

(***************************************************************************)
(* After the loop: write_to_conclusion_with_domains and send_email         *)
(***************************************************************************)
\* the loop over CATEGORY_CONFIGS is over
DomainsDone ==
    /\ pc = "domain"
    /\ domain > Len(Domains)
    /\ pc' = "report"
    /\ UNCHANGED <<otherVars, envVars, cleaned_content, analyzed_papers, domain, today, papers,
                   new_papers, papers_to_analyze, deferred, i, domain_analyses,
                   all_papers_analyses, fnVars, boundVars, histVars>>

\* a mutant: the header of the run is written although there is no result
ReportNothingWithHeader ==
    /\ pc = "report"
    /\ all_papers_analyses = <<>>
    /\ store' = (IF store = NoFile THEN EmptyFile ELSE store) \o <<Blank, RunHeader, Blank>>
    /\ pc' = "idle"
    /\ LocalsCleared
    /\ UNCHANGED <<otherVars, pdfs, emails, listing, now, max_analyze, layout,
                   fnVars, boundVars, histVars>>

\* "if all_papers_analyses:" is false: the run ends with a log line
ReportNothing ==
    /\ pc = "report"
    /\ all_papers_analyses = <<>>
    /\ pc' = "idle"
    /\ LocalsCleared
    /\ UNCHANGED <<otherVars, envVars, fnVars, boundVars, histVars>>

\* the results are appended to conclusion.md
WriteConclusion ==
    /\ pc = "report"
    /\ all_papers_analyses # <<>>
    /\ store' = Appended(store, all_papers_analyses)
    /\ hAppended' = hAppended \cup
          {all_papers_analyses[k].paper.id : k \in 1..Len(all_papers_analyses)}
    /\ hErrored' = hErrored \cup
          {all_papers_analyses[k].paper.id :
              k \in {j \in 1..Len(all_papers_analyses) :
                        all_papers_analyses[j].analysis = SentinelError}}
    /\ pc' = "notify"
    /\ UNCHANGED <<otherVars, pdfs, emails, listing, now, max_analyze, layout, cleaned_content,
                   analyzed_papers, domain, today, papers, new_papers,
                   papers_to_analyze, deferred, i, domain_analyses,
                   all_papers_analyses, fnVars, boundVars, hLoadFailed, hAnalyzed,
                   hSelected, hCleanPre, hClean, hInterrupted, hPass1,
                   hChosen, hKept, hNotified, hDeferred,
                   hBacklog, hTopics>>

\* the report of all domains is mailed, and the run ends
SendEmail ==
    /\ pc = "notify"
    /\ emails' = Append(emails, DomainOrder(all_papers_analyses, {}))
    /\ hNotified' = Append(hNotified, DomainOrder(all_papers_analyses, {}))
    /\ pc' = "idle"
    /\ LocalsCleared
    /\ UNCHANGED <<otherVars, store, pdfs, listing, now, max_analyze, layout, fnVars, boundVars,
                   hAppended, hLoadFailed, hAnalyzed, hSelected, hCleanPre, hClean,
                   hInterrupted, hPass1, hChosen, hKept, hDeferred,
                   hBacklog, hTopics, hErrored>>

\* the mail settings are incomplete or the SMTP exchange raises: logged, no
\* mail, and the run ends
SendEmailFail ==
    /\ pc = "notify"
    /\ Fault
    /\ hNotified' = Append(hNotified, DomainOrder(all_papers_analyses, {}))
    /\ pc' = "idle"
    /\ LocalsCleared
    /\ UNCHANGED <<otherVars, envVars, fnVars, runs, revisions, passes, hAppended, hLoadFailed,
                   hAnalyzed, hSelected, hCleanPre, hClean, hInterrupted, hPass1,
                   hChosen, hKept, hDeferred,
                   hBacklog, hTopics, hErrored>>

Next ==
    \/ Revise \/ StartRun \/ Interrupt
    \/ CleanNoFile \/ CleanRead \/ CleanReadFail \/ CleanOpen \/ CleanOpenFail
    \/ CleanWrite \/ CleanWriteFail
    \/ LoadOk \/ LoadFail
    \/ SearchOk \/ SearchFallback \/ SearchFail
    \/ Select
    \/ DownloadOk \/ DownloadFail \/ AnalyzeOk \/ AnalyzeFail \/ DeleteOk \/ DeleteFail
    \/ DomainDone \/ DomainsDone
    \/ ReportNothing \/ WriteConclusion \/ SendEmail \/ SendEmailFail

Spec == Init /\ [][Next]_vars

(***************************************************************************)
(* The version stripping alone: re.sub(r'v\d+$', '', id) applied to an     *)
(* identifier, then applied to its own result                              *)
(***************************************************************************)
MaxIdLen == 5         \* the longest identifier drawn

IdChars == {"7", "v", "1", "2"}

\* "2507.05245" and "2507.05245v1"
BareExampleId == <<"2", "5", "0", "7", ".", "0", "5", "2", "4", "5">>
VersionedExampleId == BareExampleId \o <<"v", "1">>

Ids == UNION {[1..m -> IdChars] : m \in 1..MaxIdLen}
        \cup {BareExampleId, VersionedExampleId}

\* the state every part of the program but the one examined is in
Parked ==
    /\ listing = [d \in Docs |-> [cats |-> AllCategories, ver |-> 1]]
    /\ max_analyze = [d \in {"SE", "CR"} |-> MaxAnalyze]
    /\ InitLocals
    /\ InitEnv
    /\ InitBounds
    /\ InitHist
    /\ InitOther

NormInit ==
    /\ raw_id \in Ids
    /\ raw_id_no_version = NoId
    /\ pc = "id"
    /\ store = NoFile
    /\ InitArgs
    /\ Parked

\* paper_id_no_version = re.sub(r'v\d+$', '', paper_id)
Normalize ==
    /\ pc = "id"
    /\ raw_id_no_version' = StripVersion(raw_id)
    /\ pc' = "id_no_version"
    /\ UNCHANGED <<otherVars, envVars, cleaned_content, analyzed_papers, domain, today, papers,
                   new_papers, papers_to_analyze, deferred, i, domain_analyses,
                   all_papers_analyses, raw_id, categories, transport, boundVars,
                   histVars>>

\* the identifier without its suffix is itself looked up as an identifier
NormalizeAgain ==
    /\ pc = "id_no_version"
    /\ raw_id' = raw_id_no_version
    /\ raw_id_no_version' = StripVersion(raw_id_no_version)
    /\ pc' = "id_again"
    /\ UNCHANGED <<otherVars, envVars, cleaned_content, analyzed_papers, domain, today, papers,
                   new_papers, papers_to_analyze, deferred, i, domain_analyses,
                   all_papers_analyses, categories, transport, boundVars, histVars>>

NormNext == Normalize \/ NormalizeAgain

SpecNorm == NormInit /\ [][NormNext]_vars

\* C5: the identifier stripped of its version does not end in "v" and digits,
\* stripping it again changes nothing, and "2507.05245v1" and "2507.05245"
\* both give "2507.05245"
C5_NormalizeIdempotent ==
    /\ pc = "id_no_version" => ~HasVersionSuffix(raw_id_no_version)
    /\ pc = "id_again" => raw_id_no_version = raw_id
    /\ (pc = "id_no_version" /\ raw_id \in {BareExampleId, VersionedExampleId})
          => raw_id_no_version = BareExampleId

(***************************************************************************)
(* The selection alone, over the papers a query can return and the sets    *)
(* get_analyzed_papers can return                                          *)
(***************************************************************************)
MaxCandidates == 8    \* the papers a query returns at most
MaxCap == 5           \* the highest "max_analyze" drawn

\* the identifiers of the listed papers: "2024.01001", "2024.01002v1",
\* "2024.01003" (those of test_configuration_and_functions), then short ones
ListedIds ==
    <<<<"2", "0", "2", "4", ".", "0", "1", "0", "0", "1">>,
      <<"2", "0", "2", "4", ".", "0", "1", "0", "0", "2", "v", "1">>,
      <<"2", "0", "2", "4", ".", "0", "1", "0", "0", "3">>,
      <<"4", "v", "2">>, <<"5", "v", "1">>, <<"6">>, <<"7", "v", "1">>, <<"8">>,
      <<"9">>, <<"1", "0", "v", "1">>>>

\* the identifiers the links of conclusion.md can carry
StoredIds ==
    {<<"2", "0", "2", "4", ".", "0", "1", "0", "0", "1">>,
     <<"2", "0", "2", "4", ".", "0", "1", "0", "0", "2">>,
     <<"4", "v", "1">>, <<"6", "v", "3">>}

\* what get_analyzed_papers returns for a file with these links
KnownSets == {AnalyzedPapers([k \in 1..1 |-> LinkLine(id)]) : id \in StoredIds}

\* papers published two a day, the first two the day before the run
ListedPaper(d) ==
    [doc |-> d, id |-> ListedIds[d], published |-> FirstDay - ((d + 1) \div 2)]

Reversed(s) == [k \in 1..Len(s) |-> s[Len(s) + 1 - k]]

\* the papers of a set in the order of the listing, or in the opposite order
Candidates(S) ==
    LET in(d) == d \in S
        listed == SelectSeq([d \in 1..MaxCandidates |-> d], in)
        found == [k \in 1..Len(listed) |-> ListedPaper(listed[k])]
    IN  {found, Reversed(found)}

SelectInit ==
    /\ papers \in UNION {Candidates(S) : S \in SUBSET (1..MaxCandidates)}
    /\ analyzed_papers \in {UNION K : K \in SUBSET KnownSets}
    /\ listing = [d \in Docs |-> [cats |-> AllCategories, ver |-> 1]]
    /\ \E cap \in 0..MaxCap : max_analyze = [d \in {"SE", "CR"} |-> cap]
    /\ store = NoFile
    /\ pc = "select"
    /\ domain = 1
    /\ today = FirstDay
    /\ cleaned_content = <<>>
    /\ new_papers = <<>>
    /\ papers_to_analyze = <<>>
    /\ deferred = 0
    /\ i = 0
    /\ domain_analyses = <<>>
    /\ all_papers_analyses = <<>>
    /\ InitEnv
    /\ InitFn
    /\ InitArgs
    /\ InitBounds
    /\ InitHist
    /\ InitOther

SelectNext == Select

SpecSelect == SelectInit /\ [][SelectNext]_vars

\* a paper of the listing is among the papers of a sequence
Holds(s, p) == \E k \in 1..Len(s) : s[k] = p

\* neither the identifier of the paper as listed nor the identifier without
\* its version suffix is in the set
Unknown(p, known) == p.id \notin known /\ StripVersion(p.id) \notin known

\* C6: the selection step takes a candidate for new if and only if neither
\* its raw identifier nor its normalized identifier is in the known set; with
\* the known set {2024.01001, 2024.01002} the papers 2024.01001 and
\* 2024.01002v1 are known and 2024.01003 is new
C6_NewIffUnknown ==
    [][Select =>
          /\ \A k \in 1..Len(papers) :
                Holds(new_papers', papers[k]) <=> Unknown(papers[k], analyzed_papers)
          /\ \A k \in 1..Len(new_papers') : Holds(papers, new_papers'[k])
          /\ (/\ analyzed_papers = {ListedIds[1], StripVersion(ListedIds[2])}
              /\ papers = <<ListedPaper(1), ListedPaper(2), ListedPaper(3)>>)
                => new_papers' = <<ListedPaper(3)>>]_vars

\* the selection ran on the three papers of the example with the known set of
\* the example, and 2024.01003 alone was taken for new
C6_ExampleClassified ==
    /\ pc = "download"
    /\ analyzed_papers = {ListedIds[1], StripVersion(ListedIds[2])}
    /\ papers = <<ListedPaper(1), ListedPaper(2), ListedPaper(3)>>
    /\ new_papers = <<ListedPaper(3)>>
    /\ papers_to_analyze = <<ListedPaper(3)>>

\* how often a paper occurs in a sequence
Occurrences(s, p) == Cardinality({k \in 1..Len(s) : s[k] = p})

\* C9: with n new candidates and a cap of c, the selection keeps min(n, c)
\* papers, the first min(n, c) of the new candidates ordered newest first,
\* and counts n - min(n, c) as deferred; with no new candidate nothing is
\* selected and the run goes on with the next domain
C9_SelectionCap ==
    [][Select =>
          LET c == max_analyze[domain_name]
              n == Cardinality({k \in 1..Len(papers) :
                                    Unknown(papers[k], analyzed_papers)})
              m == IF n < c THEN n ELSE c
          IN  /\ Len(new_papers') = n
              /\ \A k \in 1..Len(papers) :
                    Occurrences(new_papers', papers[k]) =
                        IF Unknown(papers[k], analyzed_papers)
                        THEN Occurrences(papers, papers[k]) ELSE 0
              /\ \A k \in 1..(n - 1) :
                    new_papers'[k].published >= new_papers'[k + 1].published
              /\ Len(papers_to_analyze') = m
              /\ papers_to_analyze' = SubSeq(new_papers', 1, m)
              /\ deferred' = n - m
              /\ pc' = (IF m = 0 THEN "domain" ELSE "download")
              /\ domain' = (IF m = 0 THEN domain + 1 ELSE domain)]_vars

\* 8 new candidates and a cap of 5: 5 papers are selected, 3 deferred
C9_EightCandidatesCapFive ==
    /\ pc = "download"
    /\ max_analyze[domain_name] = 5
    /\ Len(papers) = 8
    /\ Len(new_papers) = 8
    /\ Len(papers_to_analyze) = 5
    /\ deferred = 3
    /\ papers[1].published < papers[8].published

(***************************************************************************)
(* clean_duplicate_entries alone, run twice over any small file            *)
(***************************************************************************)
MaxLines == 4         \* the lines of the longest file drawn

\* lines of a file: sections with a plain title, a title padded with white
\* space and a title of white space only, entries with and without a link
StoreLines ==
    {Blank, TextLine, H4(<<"A">>), H3(<<"A">>), H3(<<" ", "A", " ">>), H3(<<" ">>),
     LinkLine(<<"7">>), LinkLine(<<"7", "v", "1">>)}

CompactInit ==
    /\ store \in UNION {[1..m -> StoreLines] : m \in 1..MaxLines}
    /\ pc = "clean"
    /\ Parked
    /\ InitFn
    /\ InitArgs

\* clean_duplicate_entries is called on the file it has just written
CompactAgain ==
    /\ pc = "load"
    /\ hClean = "done"
    /\ passes = 0
    /\ passes' = 1
    /\ hPass1' = store
    /\ pc' = "clean"
    /\ UNCHANGED <<otherVars, envVars, cleaned_content, analyzed_papers, domain, today, papers,
                   new_papers, papers_to_analyze, deferred, i, domain_analyses,
                   all_papers_analyses, fnVars, runs, faults, revisions, hAppended,
                   hLoadFailed, hAnalyzed, hSelected, hCleanPre, hClean, hInterrupted,
                   hChosen, hKept, hNotified, hDeferred,
                   hBacklog, hTopics, hErrored>>

CompactNext == CleanRead \/ CleanOpen \/ CleanWrite \/ CompactAgain

SpecCompact == CompactInit /\ [][CompactNext]_vars

\* C7: the file clean_duplicate_entries writes when it runs on its own output
\* is the file it wrote the first time
C7_CompactionIdempotent ==
    (pc = "load" /\ passes = 1) => store = hPass1

(***************************************************************************)
(* Properties of the runs of main()                                        *)
(***************************************************************************)
\* the normalized identifiers of the entries the earlier runs appended
EnteredIds == {StripVersion(id) : id \in hAppended}

\* the identifiers of the link lines of a file, in the order of the lines
LinkIds(lines) ==
    LET link(l) == l.id # NoId
        links == SelectSeq(lines, link)
    IN  [k \in 1..Len(links) |-> links[k].id]

\* no two elements of a sequence of identifiers have the same normalized form
DistinctNormalized(ids) ==
    \A j, k \in 1..Len(ids) : j < k => StripVersion(ids[j]) # StripVersion(ids[k])

\* C1: in runs where nothing fails and nothing is interrupted (loading the
\* history succeeds in all of them), once a run has appended an entry under an
\* identifier, no later run selects or enriches a candidate whose normalized
\* identifier equals the normalized form of that identifier
C1_NoReselectionAcrossRuns ==
    (faults = 0 /\ pc \in {"download", "analyze", "delete"}) =>
        \A k \in 1..Len(papers_to_analyze) :
            StripVersion(papers_to_analyze[k].id) \notin EnteredIds

\* C2: within one run, any two calls of the analysis service are for papers
\* with different normalized identifiers
C2_AtMostOnceEnrichment == DistinctNormalized(hAnalyzed)

\* C3: after clean_duplicate_entries rewrote a store that the appends of
\* write_to_conclusion_with_domains produced, no two link lines left in the
\* store carry identifiers with the same normalized form
C3_NoDuplicateEntries ==
    (faults = 0 /\ hClean = "done" /\ pc = "load") =>
        DistinctNormalized(LinkIds(store))

\* C4: when clean_duplicate_entries is interrupted or fails at any step, the
\* store holds its complete content from before the compaction or its
\* complete compacted content
C4_CompactionAtomic ==
    (\/ pc = "idle" /\ hInterrupted \in {"clean_open", "clean_write"}
     \/ pc = "load" /\ hClean = "failed") =>
        store \in {hCleanPre, CleanedContent(hCleanPre)}

\* C8: every paper get_recent_papers hands to the selection was published
\* no more than 7 days before the run, whichever query produced it
C8_DiscoveryRecent ==
    pc = "select" =>
        \A k \in 1..Len(papers) : papers[k].published >= today - RecentDays

RECURSIVE ExpectedResults(_)
\* one result per selected paper whose download succeeded, in the order of
\* the outcomes: the sentinel text when the analysis failed, the answer of
\* the service otherwise
ExpectedResults(outcomes) ==
    IF outcomes = <<>> THEN <<>>
    ELSE LET o == Head(outcomes)
             rest == ExpectedResults(Tail(outcomes))
         IN  IF o.outcome = "nopdf" THEN rest
             ELSE <<Result(o.paper,
                           IF o.outcome = "failed" THEN SentinelError ELSE layout,
                           o.domain)>> \o rest

\* C10: when the loop over the domains is over, every selected paper was
\* processed, in selection order, and the results of the run are exactly one
\* result per paper whose download succeeded, in that order, carrying the
\* sentinel error text where the analysis call failed; a paper whose download
\* failed has no result
C10_OneResultPerDownload ==
    pc = "report" =>
        /\ [k \in 1..Len(hSelected) |-> hSelected[k].paper] = hChosen
        /\ all_papers_analyses = ExpectedResults(hSelected)

\* three different papers were selected, one analysis call failed, and the
\* run has three results, one of them the sentinel
C10_ThreeSelectedOneFailure ==
    /\ pc = "report"
    /\ Len(hChosen) = 3
    /\ Cardinality({hChosen[k].doc : k \in 1..3}) = 3
    /\ Cardinality({k \in 1..Len(hSelected) : hSelected[k].outcome = "failed"}) = 1
    /\ Len(all_papers_analyses) = 3
    /\ Cardinality({k \in 1..3 : all_papers_analyses[k].analysis = SentinelError}) = 1

CategoryLists ==
    {<<>>, <<"cs.SE">>, <<"cs.CR">>, <<"cs.SE", "cs.CR">>, <<"cs.CR", "cs.SE">>}

DiscoverInit ==
    /\ listing \in [Docs -> [cats : SUBSET AllCategories, ver : {1}]]
    /\ categories \in CategoryLists
    /\ transport \in {"ok", "fallback", "down"}
    /\ max_analyze = [d \in {"SE", "CR"} |-> MaxAnalyze]
    /\ store = NoFile
    /\ pc = "discover"
    /\ domain = 1
    /\ today = 0
    /\ cleaned_content = <<>>
    /\ analyzed_papers = {}
    /\ papers = <<>>
    /\ new_papers = <<>>
    /\ papers_to_analyze = <<>>
    /\ deferred = 0
    /\ i = 0
    /\ domain_analyses = <<>>
    /\ all_papers_analyses = <<>>
    /\ InitEnv
    /\ InitFn
    /\ InitBounds
    /\ InitHist
    /\ InitOther

\* papers = get_recent_papers(categories, max_search), then
\* "if not papers: continue"
Discover ==
    /\ pc = "discover"
    /\ Found(GetRecentPapers(categories, MaxSearch, transport))
    /\ UNCHANGED <<otherVars, envVars, cleaned_content, analyzed_papers, new_papers,
                   papers_to_analyze, deferred, i, domain_analyses,
                   all_papers_analyses, fnVars, boundVars, histVars>>

DiscoverNext == Discover

SpecDiscover == DiscoverInit /\ [][DiscoverNext]_vars

\* the papers the catalog lists under one category, newest first
ListedUnder(cat) ==
    LET listed(d) == cat \in listing[d].cats
        hits == SelectSeq(NewestFirst, listed)
    IN  [k \in 1..Len(hits) |-> Paper(hits[k], listing[hits[k]].ver)]

\* C12: get_recent_papers always returns; when the query with all categories
\* fails, what it returns is the answer of the one query with the first
\* category alone, at most max_search papers; when that query fails too, or
\* there is no first category, it returns the empty sequence and main goes on
\* with the next domain
C12_DiscoveryFailsSoft ==
    pc # "discover" =>
        /\ pc \in {"select", "domain"}
        /\ (transport = "fallback" /\ categories # <<>>) =>
              /\ Len(papers) <= MaxSearch
              /\ papers = Take(ListedUnder(categories[1]), MaxSearch)
        /\ (transport = "down" \/ (transport = "fallback" /\ categories = <<>>)) =>
              /\ papers = <<>>
              /\ pc = "domain"
              /\ domain = 2

\* the first query failed and the simplified query answered with papers of
\* the first category, while a paper listed under the second category alone
\* was left out
C12_FallbackOnFirstFilter ==
    /\ pc = "select"
    /\ transport = "fallback"
    /\ Len(categories) = 2
    /\ papers # <<>>
    /\ \E d \in Docs :
          /\ listing[d].cats = {categories[2]}
          /\ \A k \in 1..Len(papers) : papers[k].doc # d

\* the domains for which this run has a result
DomainsWithResults ==
    {hSelected[k].domain : k \in {j \in 1..Len(hSelected) : hSelected[j].outcome # "nopdf"}}

\* C13: send_email is called at most once in a run, never before the loop
\* over the domains is over and the results are in conclusion.md; the report
\* it is given names every domain that has a result; and a run with a result
\* that comes to its end has called it once
C13_OneNotification ==
    /\ Len(hNotified) <= 1
    /\ hNotified # <<>> =>
          /\ pc = "idle"
          /\ \A k \in 1..Len(hAnalyzed) :
                /\ hAnalyzed[k] \in hAppended
                /\ \E j \in 1..Len(store) : store[j].id = hAnalyzed[k]
          /\ {hNotified[1][k] : k \in 1..Len(hNotified[1])} = DomainsWithResults
    /\ (pc = "idle" /\ runs > 0 /\ hInterrupted = "no" /\ DomainsWithResults # {})
          => Len(hNotified) = 1

\* a run with results in both domains is over: one call of send_email, with
\* both domains in the report, and one mail more
C13_OneMailForBothDomains ==
    /\ pc = "idle"
    /\ runs = 1
    /\ DomainsWithResults = {"SE", "CR"}
    /\ Len(hNotified) = 1
    /\ Len(hNotified[1]) = 2
    /\ Len(emails) = 1
    /\ emails[1] = hNotified[1]

(***************************************************************************)
(* write_to_conclusion_with_domains alone, called with any short list of   *)
(* results, the domains in any order                                       *)
(***************************************************************************)
MaxResults == 3       \* the results of the longest list drawn

ResultLists ==
    LET results == {Result(Paper(d, 1), analysis, name) :
                        d \in {1, 2}, analysis \in Answers \cup {SentinelError},
                        name \in {"SE", "CR"}}
    IN  UNION {[1..m -> results] : m \in 1..MaxResults}

AppendInit ==
    /\ all_papers_analyses \in ResultLists
    /\ store \in {NoFile, EmptyFile, <<Blank, RunHeader, Blank>>}
    /\ listing = [d \in Docs |-> [cats |-> AllCategories, ver |-> 1]]
    /\ max_analyze = [d \in {"SE", "CR"} |-> MaxAnalyze]
    /\ pc = "report"
    /\ domain = Len(Domains) + 1
    /\ today = FirstDay
    /\ cleaned_content = <<>>
    /\ analyzed_papers = {}
    /\ papers = <<>>
    /\ new_papers = <<>>
    /\ papers_to_analyze = <<>>
    /\ deferred = 0
    /\ i = 0
    /\ domain_analyses = <<>>
    /\ InitEnv
    /\ InitFn
    /\ InitArgs
    /\ InitBounds
    /\ InitHist
    /\ InitOther

AppendNext == WriteConclusion

SpecAppend == AppendInit /\ [][AppendNext]_vars

\* the line is a "### {domain} 领域" line
IsDomainHeader(l) == l.k = "h3" /\ \E name \in {"SE", "CR"} : l.t = DomainTitle(name)

\* the domain a "### {domain} 领域" line names
HeaderDomain(l) == CHOOSE name \in {"SE", "CR"} : l.t = DomainTitle(name)

\* the domain headers and the links of some lines, in the order of the lines
Outline(lines) ==
    LET marks(l) == IsDomainHeader(l) \/ l.id # NoId
    IN  SelectSeq(lines, marks)

RECURSIVE EntriesUnder(_, _, _)
\* the links of an outline that stand under the header of a domain
EntriesUnder(outline, name, under) ==
    IF outline = <<>> THEN <<>>
    ELSE LET l == Head(outline)
         IN  IF IsDomainHeader(l)
             THEN EntriesUnder(Tail(outline), name, HeaderDomain(l))
             ELSE (IF under = name THEN <<l.id>> ELSE <<>>)
                      \o EntriesUnder(Tail(outline), name, under)

\* the identifiers of the results of a domain, in the order of the results
IdsOfDomain(results, name) ==
    LET mine(r) == r.domain = name
        rs == SelectSeq(results, mine)
    IN  [k \in 1..Len(rs) |-> rs[k].paper.id]

\* the place of the first result of a domain
FirstSeen(results, name) ==
    CHOOSE k \in 1..Len(results) :
        /\ results[k].domain = name
        /\ \A j \in 1..(k - 1) : results[j].domain # name

\* C14: write_to_conclusion_with_domains leaves what the file held in place
\* and adds one "## " header, then one "### {domain} 领域" header per domain
\* that has results, the domains in the order of their first result, and
\* under each header one entry per result of the domain, in the order of the
\* results (the lines of an analysis text are the body of its entry)
C14_AppendGroupsByDomain ==
    [][WriteConclusion =>
          LET base == IF store = NoFile THEN EmptyFile ELSE store
              added == SubSeq(store', Len(base) + 1, Len(store'))
              outline == Outline(added)
              heads == {k \in 1..Len(outline) : IsDomainHeader(outline[k])}
              names == {all_papers_analyses[k].domain :
                            k \in 1..Len(all_papers_analyses)}
          IN  /\ SubSeq(store', 1, Len(base)) = base
              /\ Cardinality({k \in 1..Len(added) : added[k].k = "h2"}) = 1
              /\ added[2] = RunHeader
              /\ IsDomainHeader(outline[1])
              /\ {HeaderDomain(outline[k]) : k \in heads} = names
              /\ Cardinality(heads) = Cardinality(names)
              /\ \A j, k \in heads :
                    j < k => FirstSeen(all_papers_analyses, HeaderDomain(outline[j]))
                               < FirstSeen(all_papers_analyses, HeaderDomain(outline[k]))
              /\ \A name \in names :
                    EntriesUnder(outline, name, "") =
                        IdsOfDomain(all_papers_analyses, name)
              /\ Len(outline) = Cardinality(heads) + Len(all_papers_analyses)]_vars

\* there was no file, two domains had one result each: the file holds one
\* "## " header and two domain headers with one entry each
C14_TwoDomainsOneEntryEach ==
    /\ pc = "notify"
    /\ Len(all_papers_analyses) = 2
    /\ all_papers_analyses[1].domain # all_papers_analyses[2].domain
    /\ all_papers_analyses[1].paper # all_papers_analyses[2].paper
    /\ store[1] = Blank /\ store[2] = Blank /\ store[3] = RunHeader
    /\ Cardinality({k \in 1..Len(store) : store[k].k = "h2"}) = 1
    /\ LET outline == Outline(store)
       IN  /\ Len(outline) = 4
           /\ IsDomainHeader(outline[1]) /\ outline[2].id = all_papers_analyses[1].paper.id
           /\ IsDomainHeader(outline[3]) /\ outline[4].id = all_papers_analyses[2].paper.id
           /\ HeaderDomain(outline[1]) = all_papers_analyses[1].domain
           /\ HeaderDomain(outline[3]) = all_papers_analyses[2].domain

\* C15: of the papers the first query returns, get_recent_papers keeps those
\* and only those published 7 days before the run or later, in the order of
\* the results: a paper published 7 days before the run is kept, a paper
\* published 8 days before it is not
C15_RecencyBoundary ==
    (pc # "discover" /\ transport = "ok") =>
        LET results == SearchResults(categories, MaxSearch)
            kept == {k \in 1..Len(results) : results[k].published >= now - RecentDays}
        IN  /\ Len(papers) = Cardinality(kept)
            /\ \A k \in 1..Len(results) :
                  (k \in kept) <=> (\E j \in 1..Len(papers) : papers[j] = results[k])
            /\ \A j \in 1..Len(papers) :
                  /\ papers[j].published # now - RecentDays - 1
                  /\ \E k \in kept : papers[j] = results[k]
            /\ \A k \in 1..Len(results) :
                  results[k].published = now - RecentDays =>
                      \E j \in 1..Len(papers) : papers[j] = results[k]

\* the query returned a paper published 7 days before the run and one
\* published 8 days before it: the first is kept, the second is not
C15_EdgeKeptOlderDropped ==
    /\ pc = "select"
    /\ transport = "ok"
    /\ \E k \in 1..Len(SearchResults(categories, MaxSearch)) :
          SearchResults(categories, MaxSearch)[k].published = now - RecentDays - 1
    /\ \E j \in 1..Len(papers) : papers[j].published = now - RecentDays
    /\ \A j \in 1..Len(papers) : papers[j].published >= now - RecentDays

(***************************************************************************)
(* Two processes run main() on the same conclusion.md.  The steps of the   *)
(* first are those of Spec when nothing fails; the second takes its steps  *)
(* function by function: clean_duplicate_entries, get_analyzed_papers, the *)
(* loop over the domains, write_to_conclusion_with_domains.                *)
(***************************************************************************)
\* the results of one domain in a run that knows the identifiers of known
DomainResults(name, known) ==
    LET found == GetRecentPapers(Categories(name), MaxSearch, "ok")
        chosen == PapersToAnalyze(SortNewest(NewPapers(found, known)), max_analyze[name])
    IN  [k \in 1..Len(chosen) |-> Result(chosen[k], layout, name)]

RECURSIVE RunResults(_, _)
\* all_papers_analyses after the loop over the domains from domain d on
RunResults(d, known) ==
    IF d > Len(Domains) THEN <<>>
    ELSE Extended(DomainResults(Domains[d], known), RunResults(d + 1, known))

OtherClean ==
    /\ other_pc = "idle"
    /\ other_pc' = "load"
    /\ store' = (IF store = NoFile THEN NoFile ELSE CleanedContent(store))
    /\ UNCHANGED <<pdfs, emails, listing, now, max_analyze, layout, runVars, fnVars,
                   boundVars, histVars, other_analyzed_papers, other_analyses,
                   hOtherAppended>>

OtherLoad ==
    /\ other_pc = "load"
    /\ other_analyzed_papers' = Loaded
    /\ other_pc' = "domains"
    /\ UNCHANGED <<envVars, runVars, fnVars, boundVars, histVars, other_analyses,
                   hOtherAppended>>

OtherAnalyse ==
    /\ other_pc = "domains"
    /\ other_analyses' = RunResults(1, other_analyzed_papers)
    /\ other_pc' = "report"
    /\ UNCHANGED <<envVars, runVars, fnVars, boundVars, histVars,
                   other_analyzed_papers, hOtherAppended>>

OtherAppend ==
    /\ other_pc = "report"
    /\ other_pc' = "done"
    /\ IF other_analyses = <<>>
       THEN UNCHANGED <<store, hOtherAppended>>
       ELSE /\ store' = Appended(store, other_analyses)
            /\ hOtherAppended' =
                  {other_analyses[k].paper.id : k \in 1..Len(other_analyses)}
    /\ UNCHANGED <<pdfs, emails, listing, now, max_analyze, layout, runVars, fnVars,
                   boundVars, histVars, other_analyzed_papers, other_analyses>>

OverlapNext ==
    \/ StartRun
    \/ CleanNoFile \/ CleanRead \/ CleanOpen \/ CleanWrite
    \/ LoadOk
    \/ SearchOk
    \/ Select
    \/ DownloadOk \/ AnalyzeOk \/ DeleteOk
    \/ DomainDone \/ DomainsDone
    \/ ReportNothing \/ WriteConclusion \/ SendEmail
    \/ OtherClean \/ OtherLoad \/ OtherAnalyse \/ OtherAppend

SpecOverlap == Init /\ [][OverlapNext]_vars

\* C16: a run that found no conclusion.md when it started does not call the
\* analysis service for a paper whose entry another run, overlapping with
\* it, has appended to conclusion.md in the meantime
C16_NoReprocessingWhenOverlapping ==
    (pc = "analyze" /\ hClean = "nofile") =>
        StripVersion(paper.id) \notin {StripVersion(id) : id \in hOtherAppended}

RECURSIVE IsSubsequence(_, _)
\* the elements of s occur in t in the order they have in s
IsSubsequence(s, t) ==
    IF s = <<>> THEN TRUE
    ELSE IF t = <<>> THEN FALSE
    ELSE IF Head(s) = Head(t) THEN IsSubsequence(Tail(s), Tail(t))
    ELSE IsSubsequence(s, Tail(t))

\* the normalized identifiers of the links of a file
LinkClasses(lines) ==
    {StripVersion(LinkIds(lines)[k]) : k \in 1..Len(LinkIds(lines))}

\* C17: clean_duplicate_entries, run without failure on a file the appends
\* of write_to_conclusion_with_domains produced, removes an entry only if an
\* earlier entry has the same normalized identifier: every normalized
\* identifier the file held is still in it, the entries left are in the
\* order they had, and the lines before the first "### " line are untouched
C17_OnlyDuplicatesRemoved ==
    (faults = 0 /\ hClean = "done" /\ pc = "load") =>
        /\ LinkClasses(hCleanPre) \subseteq LinkClasses(store)
        /\ IsSubsequence(LinkIds(store), LinkIds(hCleanPre))
        /\ \A k \in 1..Len(hCleanPre) :
              (\A j \in 1..k : hCleanPre[j].k # "h3") =>
                  (k <= Len(store) /\ store[k] = hCleanPre[k])

\* the place of a paper in a sequence of different papers
Place(s, p) == CHOOSE k \in 1..Len(s) : s[k] = p

\* C18: the new candidates are sorted by publication date, newest first,
\* before the cap is applied, and two candidates of the same date keep the
\* order in which get_recent_papers returned them
C18_StableNewestFirst ==
    [][Select =>
          /\ \A j, k \in 1..Len(new_papers') :
                j < k =>
                    \/ new_papers'[j].published > new_papers'[k].published
                    \/ /\ new_papers'[j].published = new_papers'[k].published
                       /\ Place(papers, new_papers'[j]) < Place(papers, new_papers'[k])
          /\ \A k \in 1..Len(papers_to_analyze') :
                papers_to_analyze'[k] = new_papers'[k]
          /\ \A k \in 1..Len(new_papers') :
                k > Len(papers_to_analyze') =>
                    \A j \in 1..Len(papers_to_analyze') :
                        papers_to_analyze'[j].published >= new_papers'[k].published]_vars

\* the query returned the papers oldest first: the selection put them newest
\* first, left two papers of the same day in the order of the query, and the
\* cap cut between the two
C18_TieKeepsDiscoveryOrder ==
    /\ pc = "download"
    /\ Len(new_papers) >= 3
    /\ new_papers # papers
    /\ Len(papers_to_analyze) < Len(new_papers)
    /\ LET n == Len(papers_to_analyze)
       IN  /\ new_papers[n].published = new_papers[n + 1].published
           /\ Place(papers, new_papers[n]) < Place(papers, new_papers[n + 1])
           /\ new_papers[n].doc > new_papers[n + 1].doc

(***************************************************************************)
(* C19: the papers left beyond max_analyze                                 *)
(***************************************************************************)
\* the normalized identifiers of a list of papers
PaperClasses(list) == {StripVersion(list[k].id) : k \in 1..Len(list)}

\* C19 as stated: in a run without failure no paper left beyond max_analyze
\* under some domain has a link in conclusion.md.
C19_NoDeferredInStore ==
    faults = 0 => PaperClasses(hDeferred) \cap LinkClasses(store) = {}

\* C19: being left beyond max_analyze writes nothing.  While every load has
\* succeeded, a paper left beyond max_analyze under one domain and selected
\* under no domain of the same run has no link in conclusion.md, during the
\* run and after it; and in the next run every such paper the search returns
\* within the recency window is in new_papers again.
C19_DeferredNotPersisted ==
    [][ /\ ~hLoadFailed' =>
            PaperClasses(NotAmong(hDeferred', hChosen')) \cap LinkClasses(store') = {}
        /\ (Select /\ ~hLoadFailed) =>
            \A k \in 1..Len(papers) :
                StripVersion(papers[k].id) \in PaperClasses(hBacklog)
                    => \E j \in 1..Len(new_papers') : new_papers'[j] = papers[k]
      ]_vars

\* the second run, nothing having failed, selects a paper the first run left
\* beyond max_analyze, and the first run appended its own selection
C19_DeferredSelectedNextRun ==
    /\ runs = 2
    /\ faults = 0
    /\ pc = "download"
    /\ LinkClasses(store) # {}
    /\ PaperClasses(papers_to_analyze) \cap PaperClasses(hBacklog) # {}
    /\ PaperClasses(hBacklog) \cap LinkClasses(store) = {}

(***************************************************************************)
(* C20: get_analyzed_papers when the read fails                            *)
(***************************************************************************)
\* C20: a failed read in get_analyzed_papers gives the empty set and main goes
\* on to the first domain; no conclusion.md gives the empty set as well;
\* neither outcome changes conclusion.md; until the process ends nothing but
\* get_analyzed_papers assigns analyzed_papers, and with the empty set every
\* paper the search returned is in new_papers.
C20_LoadFailsSoft ==
    [][ /\ LoadFail => /\ analyzed_papers' = {}
                       /\ pc' = "domain" /\ domain' = 1
                       /\ store' = store
        /\ LoadOk => /\ store' = store
                     /\ store = NoFile => analyzed_papers' = {}
        /\ analyzed_papers' # analyzed_papers => (pc = "load" \/ pc' = "idle")
        /\ (Select /\ analyzed_papers = {}) =>
               /\ Len(new_papers') = Len(papers)
               /\ \A k \in 1..Len(papers) :
                      \E j \in 1..Len(new_papers') : new_papers'[j] = papers[k]
      ]_vars

\* the read of the second run failed, and a paper conclusion.md has a link of
\* is selected again
C20_KnownPaperSelectedAfterFailedLoad ==
    /\ runs = 2
    /\ hLoadFailed
    /\ analyzed_papers = {}
    /\ pc = "download"
    /\ PaperClasses(papers_to_analyze) \cap LinkClasses(store) # {}

(***************************************************************************)
(* C21: a domain without papers, or without new papers                     *)
(***************************************************************************)
\* the papers this run selected under a domain and has gone through
Processed(name) ==
    LET under(o) == o.domain = name
    IN  Len(SelectSeq(hSelected, under))

\* the loop over the domains of this run has come to its end
LoopOver ==
    \/ pc \in {"report", "notify"}
    \/ pc = "idle" /\ runs > 0 /\ hInterrupted = "no"

\* C21: a domain for which the search gives nothing, or nothing new, does not
\* end the loop of main.  The domains are searched in the order of
\* CATEGORY_CONFIGS; when the loop is over every domain has been searched,
\* every domain with a paper found has had its selection and every paper
\* selected has been gone through; the results of every domain are in
\* all_papers_analyses when the report is made, their links are in
\* conclusion.md once it is written, and send_email is called when the run
\* has a result.
C21_TopicsIndependent ==
    /\ Len(hTopics) <= Len(Domains)
    /\ \A k \in 1..Len(hTopics) : hTopics[k].domain = Domains[k]
    /\ LoopOver =>
          /\ Len(hTopics) = Len(Domains)
          /\ \A k \in 1..Len(hTopics) :
                /\ hTopics[k].found > 0 => hTopics[k].selected
                /\ Processed(hTopics[k].domain) = hTopics[k].chosen
    /\ pc \in {"report", "notify"} =>
          \A k \in 1..Len(hSelected) :
              hSelected[k].outcome # "nopdf" =>
                  \E j \in 1..Len(all_papers_analyses) :
                      /\ all_papers_analyses[j].paper = hSelected[k].paper
                      /\ all_papers_analyses[j].domain = hSelected[k].domain
    /\ (pc = "notify" \/ (LoopOver /\ pc = "idle")) =>
          \A k \in 1..Len(hSelected) :
              hSelected[k].outcome # "nopdf" =>
                  \E j \in 1..Len(store) : store[j].id = hSelected[k].paper.id
    /\ (LoopOver /\ pc = "idle" /\ DomainsWithResults # {}) => hNotified # <<>>

\* two runs are over.  In the first the first domain gave no result and the
\* second gave the only results; in the second the first domain gave the only
\* results and the second had papers but selected none.  Each run was mailed.
C21_EitherDomainAlone ==
    /\ pc = "idle"
    /\ runs = 2
    /\ hInterrupted = "no"
    /\ emails = << <<"CR">>, <<"SE">> >>
    /\ hTopics[1].chosen > 0
    /\ hTopics[2].found > 0
    /\ hTopics[2].chosen = 0

(***************************************************************************)
(* C22: the order of the steps of main                                     *)
(***************************************************************************)
\* the positions of main between get_analyzed_papers and the append
InLoop == {"domain", "select", "download", "analyze", "delete", "report"}

\* what the file gives get_analyzed_papers, written out from the file
KnownIn(file) == IF file = NoFile THEN {} ELSE AnalyzedPapers(file)

\* C22: in every run clean_duplicate_entries is over, done or failed, before
\* get_analyzed_papers is called; get_analyzed_papers has returned before the
\* first domain is searched; conclusion.md is left alone from then until the
\* loop over the domains is over, and is appended to once, after the last
\* domain.  So the set get_analyzed_papers returns is the set of the file as
\* the compaction left it, the set of the cleaned content when the compaction
\* was done, and it is kept as it is for all the domains.
C22_StepsInOrder ==
    [][ /\ pc' = "load" => /\ pc \in {"clean", "clean_open", "clean_write"}
                           /\ hClean' \in {"nofile", "done", "failed"}
                           /\ hTopics' = <<>>
        /\ (LoadOk \/ LoadFail) => /\ hClean # "none"
                                   /\ hTopics = <<>>
                                   /\ pc' = "domain" /\ domain' = 1
        /\ hTopics' # hTopics =>
               \/ hTopics' = <<>>
               \/ pc \in {"domain", "select"} /\ domain >= 1
        /\ pc \in ({"load"} \cup InLoop) \ {"report"} => store' = store
        /\ (pc = "report" /\ store' # store) =>
               /\ domain = Len(Domains) + 1
               /\ Len(hTopics) = Len(Domains)
               /\ pc' = "notify"
        /\ pc = "notify" => (store' = store /\ pc' \in {"notify", "idle"})
        /\ pc' = "report" => (pc = "report" \/ (pc = "domain" /\ domain > Len(Domains)))
        /\ LoadOk => /\ analyzed_papers' = KnownIn(store)
                     /\ hClean = "done" =>
                            analyzed_papers' = KnownIn(CleanedContent(hCleanPre))
        /\ pc \in InLoop => (analyzed_papers' = analyzed_papers \/ pc' = "idle")
      ]_vars

\* the second run has appended its results; its compaction changed the file
\* and the set it loaded is the set of the cleaned content, which is not the
\* set the file had before the compaction
C22_LoadedAfterCompaction ==
    /\ runs = 2
    /\ pc = "notify"
    /\ hClean = "done"
    /\ hCleanPre # NoFile
    /\ analyzed_papers = KnownIn(CleanedContent(hCleanPre))
    /\ analyzed_papers # KnownIn(hCleanPre)

(***************************************************************************)
(* C23: a paper whose analysis failed                                      *)
(***************************************************************************)
\* the line after the empty line that follows the link of id is the error text
ErrorEntry(lines, id) ==
    \E k \in 1..Len(lines) - 2 :
        /\ lines[k] = LinkLine(id)
        /\ lines[k + 2] = ErrorLine

\* C23: the result of a failed analysis is written like any other, the link
\* of the paper followed by the error text, and in a later run whose
\* compaction and load did not fail a paper appended with the error text is
\* not analysed again.
C23_FailedAnalysisNotRetried ==
    /\ (pc = "notify" /\ hInterrupted = "no") =>
           \A k \in 1..Len(hSelected) :
               hSelected[k].outcome = "failed" => ErrorEntry(store, hSelected[k].paper.id)
    /\ (pc = "analyze" /\ ~hLoadFailed /\ hClean \in {"nofile", "done"}) =>
           StripVersion(paper.id) \notin {StripVersion(id) : id \in hErrored}

(***************************************************************************)
(* C24: a run without a result                                             *)
(***************************************************************************)
\* the "## " lines of a file, one for each append
RunHeaders(lines) ==
    LET header(l) == l = RunHeader
    IN  Len(SelectSeq(lines, header))

\* a run is over, not interrupted, and no analysis was made in it
EndedWithoutResult ==
    /\ pc = "idle"
    /\ runs > 0
    /\ hInterrupted = "no"
    /\ DomainsWithResults = {}

\* C24: when all_papers_analyses is empty after the loop, main writes nothing
\* and mails nothing.  The step that ends such a run leaves conclusion.md and
\* the mails as they are; after a run without a result send_email was not
\* called, conclusion.md has no "## " line more than the content the
\* compaction read, and it is the cleaned content when the compaction was
\* done and absent when there was no file.
C24_NoResultNoWrite ==
    [][ /\ (pc = "report" /\ all_papers_analyses = <<>>) =>
               /\ store' = store
               /\ emails' = emails
               /\ hNotified' = <<>>
               /\ pc' = "idle"
        /\ EndedWithoutResult' =>
               /\ hNotified' = <<>>
               /\ RunHeaders(store') <= RunHeaders(hCleanPre')
               /\ hClean' = "done" => store' = CleanedContent(hCleanPre')
               /\ hClean' = "nofile" => store' = NoFile
      ]_vars

\* the second run is over: the download of every paper it selected failed,
\* no mail was sent for it, and conclusion.md, which the first run wrote, is
\* the cleaned content
C24_EveryDownloadFailed ==
    /\ EndedWithoutResult
    /\ runs = 2
    /\ hSelected # <<>>
    /\ hClean = "done"
    /\ store = CleanedContent(hCleanPre)
    /\ RunHeaders(store) = 1
    /\ Len(emails) = 1

=============================================================================
